---- MODULE Spec2Model ----
(***************************************************************************)
(* Soil monitoring gateway.                                                *)
(*                                                                         *)
(* gateway.py: the SQLite offline queue (OfflineStorage), the request      *)
(* handlers that deliver directly or queue, and the background queue       *)
(* processor (process_offline_queue).  Request threads (Flask,             *)
(* threaded=True) and the queue processor thread interleave at the         *)
(* granularity of one SQLite transaction, one upstream call or one write   *)
(* of the shared health items of gateway_stats.                            *)
(*                                                                         *)
(* main.py: the simplified gateway, whose /api/sensor-data handler stores  *)
(* a reading immediately or puts it on the in-memory data_queue that       *)
(* batch_data_worker drains.                                               *)
(*                                                                         *)
(* Spec follows the threads of one run of the process, with SQLite         *)
(* statements that return (but for the SELECT of a batch) and counter      *)
(* increments that are one step; LiveSpec adds the progress of the queue   *)
(* processor thread; CrashSpec adds a kill and restart of the process;     *)
(* RaceSpec adds the counter increment in two steps; FaultSpec adds the    *)
(* SQLite statements that raise.                                           *)
(***************************************************************************)
EXTENDS Integers, Sequences, FiniteSets, TLC

\* ---------------------------------------------------------------- Config
MAX_OFFLINE_RECORDS == 2
MAX_RETRIES == 2
BATCH_SIZE == 2
MAX_BUFFER_SIZE == 2   \* main.py

\* ---------------------------------------------------------------- bounds
MaxId == 4          \* rows ever inserted into offline_queue
RowsPerSecond == 2  \* INSERTs that fall into one second of CURRENT_TIMESTAMP
MaxQueued == 3      \* readings held by data_queue and failed_data together

Handlers == {"h1", "h2"}     \* request threads (Flask, threaded=True)
\* The threads that run in one behaviour.  Of gateway.py: a request thread
\* with the queue processor, or two request threads while the queue processor
\* sleeps (these also answer assignment queries), or a request thread that
\* answers GET /api/health with the queue processor.  Of main.py: a request
\* thread with batch_data_worker.
ThreadSets == {{"h1", "sched"}, {"h1", "h2"}, {"mon", "sched"}, {"recv", "worker"}}
Dest == {"mysql", "api"}
MachineIds == {"m1", "m2"}
Assigned == {"m1"}          \* machine_ids whose sensors row has a farm_id
NULL == 0                   \* last_attempt of a row never retried
\* store_sensor_data (main.py) returns True, returns False (no connection,
\* mysql.connector.Error), or raises another exception
StoreOutcomes == {"stored", "failed", "raised"}
\* what happens in DatabaseManager.get_sensor_assignment: the sensors row is
\* found; there is no such row; a mysql.connector.Error (connection from the
\* pool, query) is caught; the pool cannot be set up and get_connection raises
\* a plain Exception
AssignmentLookups == {"found", "no_row", "error", "raised"}
\* the liveness check of a probe (DatabaseManager.check_health, GET /api/test):
\* it finds the destination up, finds it down (check_health caught a
\* mysql.connector.Error, a status other than 200), or raises (no pool, a
\* refused connection, a timeout)
ProbeOutcomes == {"up", "down", "raised"}

VARIABLES
    threads,         \* the threads of this behaviour
    offline_queue,   \* rows of the SQLite table offline_queue
    nextId,          \* next AUTOINCREMENT id
    hs,              \* hs[h]: the request thread h (position and locals)
    sched,           \* the queue processor thread (position and locals)
    gateway_stats,   \* the items of gateway_stats the model follows
    mon,             \* the request thread that answers GET /api/health
    data_queue,      \* main.py: the Queue of readings waiting for the worker
    worker,          \* main.py: batch_data_worker (position and locals)
    response         \* main.py: the last answer of receive_sensor_data

gateway_vars == <<offline_queue, nextId, hs, sched, gateway_stats, mon>>
main_vars == <<data_queue, worker, response>>
vars == <<threads, offline_queue, nextId, hs, sched, gateway_stats, mon,
          data_queue, worker, response>>

\* ---------------------------------------------------------------- SQLite

\* CURRENT_TIMESTAMP has a resolution of one second and the INSERTs are
\* serialised by SQLite, so the timestamps never decrease with the id and
\* neighbouring ids may share one: RowsPerSecond INSERTs fall into each second.
InsertSecond(id) == 1 + (id - 1) \div RowsPerSecond

\* CURRENT_TIMESTAMP of an UPDATE: the second of the latest INSERT
Now == IF nextId = 1 THEN 1 ELSE InsertSecond(nextId - 1)

Endpoint(destination) ==
    IF destination = "mysql" THEN "/api/sensor-data" ELSE "/api/sensors/register"

\* INSERT INTO offline_queue with the destination fixed to 'mysql'
NewRowMysql(id, data, destination, now) ==
    [id |-> id, endpoint |-> "/api/sensor-data", data |-> data,
     timestamp |-> now, attempts |-> 0, last_attempt |-> NULL,
     destination |-> "mysql"]

\* INSERT INTO offline_queue (endpoint, data, destination): the column defaults
NewRow(id, data, destination, now) ==
    [id |-> id, endpoint |-> Endpoint(destination), data |-> data,
     timestamp |-> now, attempts |-> 0, last_attempt |-> NULL,
     destination |-> destination]

\* ORDER BY timestamp DESC
BeforeDesc(r, s) ==
    \/ r.timestamp > s.timestamp
    \/ r.timestamp = s.timestamp /\ r.id >= s.id

\* ORDER BY timestamp ASC: SQLite sorts the rowid scan with a stable sorter, so
\* rows of one second come out in id order.
Before(r, s) ==
    \/ r.timestamp < s.timestamp
    \/ r.timestamp = s.timestamp /\ r.id <= s.id

First(S) == CHOOSE r \in S : \A s \in S : Before(r, s)

RECURSIVE OrderByTimestamp(_, _)
OrderByTimestamp(S, limit) ==
    IF S = {} \/ limit <= 0 THEN <<>>
    ELSE <<First(S)>> \o OrderByTimestamp(S \ {First(S)}, limit - 1)

Range(seq) == {seq[i] : i \in 1..Len(seq)}

\* if count > Config.MAX_OFFLINE_RECORDS + 1
NeedsTrimOffByOne(count) == count > MAX_OFFLINE_RECORDS + 1

\* if count > Config.MAX_OFFLINE_RECORDS
NeedsTrim(count) == count > MAX_OFFLINE_RECORDS

\* LIMIT count - Config.MAX_OFFLINE_RECORDS
TrimLimit(count) == count - MAX_OFFLINE_RECORDS

\* SELECT id FROM offline_queue ORDER BY timestamp ASC LIMIT ?
TrimVictims(q, count) == Range(OrderByTimestamp(q, TrimLimit(count)))

\* WHERE attempts <= ? AND destination = ?
IsPendingInclusive(r, destination) ==
    r.attempts <= MAX_RETRIES /\ r.destination = destination

\* WHERE attempts < ? AND destination = ?
IsPending(r, destination) ==
    r.attempts < MAX_RETRIES /\ r.destination = destination

\* get_pending_records without 'AND destination = ?'
get_pending_records_any(q, destination, limit) ==
    OrderByTimestamp({r \in q : r.attempts < MAX_RETRIES}, limit)

get_pending_records(q, destination, limit) ==
    OrderByTimestamp({r \in q : IsPending(r, destination)}, limit)

\* what the loops read of a fetched row: record['id'], record['data']
Fetched(rows) == [i \in 1..Len(rows) |-> [id |-> rows[i].id, data |-> rows[i].data]]

\* UPDATE offline_queue SET last_attempt = CURRENT_TIMESTAMP, attempts untouched
RetriedUncounted(r, now) == [r EXCEPT !.last_attempt = now]

\* UPDATE offline_queue SET attempts = attempts + 2
RetriedTwice(r, now) == [r EXCEPT !.attempts = r.attempts + 2, !.last_attempt = now]

\* UPDATE offline_queue SET attempts = attempts + 1, last_attempt = CURRENT_TIMESTAMP
Retried(r, now) == [r EXCEPT !.attempts = r.attempts + 1, !.last_attempt = now]

\* update_attempt that deletes a row when it runs out of retries
update_attempt_purges(q, record_id, success, now) ==
    IF success THEN {r \in q : r.id # record_id}
    ELSE {IF r.id = record_id THEN Retried(r, now) ELSE r :
            r \in {x \in q : x.id # record_id \/ x.attempts + 1 < MAX_RETRIES}}

\* update_attempt without the DELETE of a synced row
update_attempt_keeps(q, record_id, success, now) ==
    IF success THEN q
    ELSE {IF r.id = record_id THEN Retried(r, now) ELSE r : r \in q}

\* update_attempt: the table after the call.  With success the row is deleted;
\* otherwise the row, if it is still there, is marked retried.
update_attempt(q, record_id, success, now) ==
    IF success THEN {r \in q : r.id # record_id}
    ELSE {IF r.id = record_id THEN Retried(r, now) ELSE r : r \in q}

\* update_attempt(record_id, False) reads attempts back with fetchone()[0]; for
\* a row that is gone fetchone() is None and the subscript raises TypeError.
update_attempt_raises(q, record_id, success) ==
    ~success /\ ~(\E r \in q : r.id = record_id)

\* ---------------------------------------------------------------- upstream

\* DatabaseManager.insert_sensor_data: the assignment lookup, then the INSERT;
\* it returns when MySQL answers and the sensor is assigned, and raises otherwise
insert_sensor_data_ok(data, mysqlUp) == mysqlUp /\ data \in Assigned

\* what the API answers to the attempts of one call_api: answers[i] is TRUE
\* for status 200/201, FALSE for another status, a timeout or a refused connection
Answers == [1..MAX_RETRIES -> BOOLEAN]

\* call_api: for attempt in range(Config.MAX_RETRIES): return True at the first
\* 200/201; after the loop return False.  tries counts the requests sent.
RECURSIVE call_api_from(_, _)
call_api_from(answers, attempt) ==
    IF attempt > MAX_RETRIES THEN [success |-> FALSE, tries |-> attempt - 1]
    ELSE IF answers[attempt] THEN [success |-> TRUE, tries |-> attempt]
    ELSE call_api_from(answers, attempt + 1)

\* call_api without the retry loop
call_api_once(answers) == [success |-> answers[1], tries |-> 1]

call_api(answers) == call_api_from(answers, 1)

\* ---------------------------------------------------------------- state

\* A request thread: its position, and the locals of its request.  kind is the
\* endpoint called (reading, registration, query), lookup what the fallback of
\* a query met in get_sensor_assignment; answers is
\* what the upstream answered to the attempts made; seen is the value of
\* gateway_stats['stored_offline'] loaded by a += not yet stored; resp is the
\* answer given to the sensor.  Between two requests the locals are those of
\* the last one.
NoRequest ==
    [pc |-> "idle", kind |-> "none", destination |-> "mysql", answers |-> <<>>, tries |-> 0,
     success |-> FALSE, record_id |-> 0, count |-> 0, lookup |-> "none",
     seen |-> 0, resp |-> "none"]

\* The queue processor: its position in the cycle, the rows fetched and not yet
\* processed, the outcome of the delivery in progress, and the destinations
\* whose probe reported unavailable in this cycle.
IdleSched ==
    [pc |-> "sleep", batch |-> <<>>, success |-> FALSE, unavailable |-> {},
     own |-> "none"]

\* datetime.now() of a probe, told apart by the probe it belongs to: the
\* thread that made it and what its liveness check found
Checked(by, own) == [by |-> by, alive |-> own = "up"]

\* the items of gateway_stats a probe of destination writes
AvailableKey(destination) == destination \o "_available"
LastCheckKey(destination) == "last_" \o destination \o "_check"

\* gateway_stats when the threads start: the counters at 0, and the health
\* items as the two probes of main() left them, which here found nothing up
StartStats ==
    [stored_offline |-> 0, offline_synced |-> 0,
     mysql_available |-> FALSE, last_mysql_check |-> Checked("main", "down"),
     api_available |-> FALSE, last_api_check |-> Checked("main", "down")]

\* The thread of GET /api/health: its position, what its liveness check in
\* progress found, and what its two probes returned.
IdleMon ==
    [pc |-> "idle", own |-> "none", mysql_healthy |-> FALSE, api_healthy |-> FALSE]

\* The rows the SQLite file holds when the process starts.  Where no request
\* thread appends, the file holds a row an earlier run of the process left.
StartQueue ==
    IF "mon" \in threads THEN {NewRow(1, "m1", "mysql", InsertSecond(1))} ELSE {}

\* batch_data_worker asleep; processed_count and failed_data are set anew in
\* every round
IdleWorker == [pc |-> "sleep", processed_count |-> 0, failed_data |-> <<>>,
               last_sync |-> NULL]

Init ==
    /\ threads \in ThreadSets
    /\ data_queue = <<>>
    /\ worker = IdleWorker
    /\ response = "none"
    /\ offline_queue = StartQueue
    /\ nextId = Cardinality(StartQueue) + 1
    /\ hs = [h \in Handlers |-> NoRequest]
    /\ sched = IdleSched
    /\ gateway_stats = StartStats
    /\ mon = IdleMon

\* ---------------------------------------------------------------- handlers

\* the request thread after the direct delivery attempts of its request
Delivered(kind, destination, answers, tries, success) ==
    [NoRequest EXCEPT !.kind = kind, !.destination = destination,
                      !.answers = answers, !.tries = tries, !.success = success]

\* 200: "status": "stored" for a reading, the answer of the API for a
\* registration
Stored(h, req) ==
    /\ hs' = [hs EXCEPT ![h] = [req EXCEPT !.resp = IF req.destination = "mysql"
                                                     THEN "stored"
                                                     ELSE "api_response"]]
    /\ UNCHANGED <<offline_queue, nextId>>

\* id INTEGER PRIMARY KEY without AUTOINCREMENT: one more than the largest id
\* in the table now
lastrowid_rowid(q, seq) ==
    IF q = {} THEN 1 ELSE 1 + (CHOOSE i \in {r.id : r \in q} : \A r \in q : r.id <= i)

\* id INTEGER PRIMARY KEY AUTOINCREMENT: one more than the largest id the table
\* ever held, which SQLite keeps in sqlite_sequence (seq is that id plus one)
lastrowid(q, seq) == seq

\* save_offline: INSERT ...; conn.commit(); record_id = cursor.lastrowid
SaveOfflineInsert(h, req, data) ==
    /\ nextId <= MaxId
    /\ LET id == lastrowid(offline_queue, nextId) IN
         /\ offline_queue' = offline_queue \cup
                               {NewRow(id, data, req.destination, InsertSecond(nextId))}
         /\ hs' = [hs EXCEPT ![h] = [req EXCEPT !.pc = "so_count", !.record_id = id]]
    /\ nextId' = nextId + 1

\* process_sensor_data with save_offline outside the except branch
process_sensor_data_saves_always(success) == TRUE

\* process_sensor_data: is save_offline called after the direct insert: only
\* from the except branch
process_sensor_data_saves(success) == ~success

\* handle_sensor_data -> process_sensor_data: one direct insert; any exception
\* goes on to save_offline('/api/sensor-data', data, 'mysql')
HandleSensorData(h) ==
    /\ hs[h].pc = "idle"
    /\ \E data \in MachineIds, mysqlUp \in BOOLEAN :
         LET ok == insert_sensor_data_ok(data, mysqlUp)
             req == Delivered("reading", "mysql", <<ok>>, 1, ok) IN
           IF process_sensor_data_saves(ok)
           THEN SaveOfflineInsert(h, req, data)
           ELSE Stored(h, req)
    /\ UNCHANGED <<threads, sched, gateway_stats>>

\* handle_sensor_registration: if success ... else save_offline(..., 'api')
registration_saves(success) == ~success

\* handle_sensor_registration: call_api('/api/sensors/register', data), then
\* the answer of the API or save_offline('/api/sensors/register', data, 'api')
HandleSensorRegistration(h) ==
    /\ hs[h].pc = "idle"
    /\ \E answers \in Answers :
         LET r == call_api(answers)
             req == Delivered("registration", "api", SubSeq(answers, 1, r.tries),
                              r.tries, r.success) IN
           IF registration_saves(r.success)
           THEN SaveOfflineInsert(h, req, "m1")
           ELSE Stored(h, req)
    /\ UNCHANGED <<threads, sched, gateway_stats>>

\* handle_assignment_check with a save_offline in its else branch
query_saves_on_failure(success) == ~success

\* handle_assignment_check: is save_offline called: nowhere
query_saves(success) == FALSE

\* get_sensor_assignment: the dict of the row, None (no row, or except Error),
\* or the exception that is not a mysql.connector.Error
get_sensor_assignment(lookup) ==
    IF lookup = "found" THEN "info"
    ELSE IF lookup \in {"no_row", "error"} THEN "None" ELSE "raise"

\* the fallback of handle_assignment_check: 200 with the assignment, 404
\* Sensor not found, or 503 from except Exception
assignment_response(assignment_info) ==
    IF assignment_info = "info" THEN "assignment"
    ELSE IF assignment_info = "None" THEN "not_found" ELSE "unavailable"

\* handle_assignment_check: call_api(..., method='GET'); the answer of the API,
\* or the fallback to DatabaseManager.get_sensor_assignment
HandleAssignmentCheck(h) ==
    /\ hs[h].pc = "idle"
    /\ \E answers \in Answers :
         LET r == call_api(answers)
             req == Delivered("query", "api", SubSeq(answers, 1, r.tries),
                              r.tries, r.success) IN
           IF query_saves(r.success)
           THEN SaveOfflineInsert(h, req, "m1")
           ELSE /\ UNCHANGED <<offline_queue, nextId>>
                /\ IF r.success
                   THEN hs' = [hs EXCEPT ![h] = [req EXCEPT !.resp = "api_response"]]
                   ELSE \E lookup \in AssignmentLookups :
                          hs' = [hs EXCEPT ![h] =
                                   [req EXCEPT
                                      !.lookup = lookup,
                                      !.resp = assignment_response(
                                                 get_sensor_assignment(lookup))]]
    /\ UNCHANGED <<threads, sched, gateway_stats>>

\* if record_id: 202 stored_offline (reading) or queued (registration);
\* else: 500
handler_response(destination, record_id) ==
    IF record_id = 0 THEN "error"
    ELSE IF destination = "mysql" THEN "stored_offline" ELSE "queued"

\* save_offline returned record_id: stored_offline += 1 and the answer
Answered(h) ==
    [hs[h] EXCEPT !.pc = "idle", !.resp = handler_response(hs[h].destination, hs[h].record_id),
                  !.record_id = 0, !.count = 0]

\* save_offline: SELECT COUNT(*); without a trim the id is returned and the
\* handler answers
SaveOfflineCount(h) ==
    /\ hs[h].pc = "so_count"
    /\ LET count == Cardinality(offline_queue) IN
         IF NeedsTrim(count)
         THEN /\ hs' = [hs EXCEPT ![h].count = count, ![h].pc = "so_trim"]
              /\ UNCHANGED gateway_stats
         ELSE /\ hs' = [hs EXCEPT ![h] = Answered(h)]
              /\ gateway_stats' = [gateway_stats EXCEPT !.stored_offline = @ + 1]
    /\ UNCHANGED <<threads, offline_queue, nextId, sched>>

\* save_offline: DELETE ... WHERE id IN (the oldest count - MAX rows); commit;
\* the id is returned and the handler answers
SaveOfflineTrim(h) ==
    /\ hs[h].pc = "so_trim"
    /\ offline_queue' = offline_queue \ TrimVictims(offline_queue, hs[h].count)
    /\ hs' = [hs EXCEPT ![h] = Answered(h)]
    /\ gateway_stats' = [gateway_stats EXCEPT !.stored_offline = @ + 1]
    /\ UNCHANGED <<threads, nextId, sched>>

\* ---------------------------------------------------------------- queue processor

\* where the loop goes after the batch of d, or after one record of it
AfterRecord(d, rest) ==
    IF rest # <<>> THEN d \o "_sync"
    ELSE IF d = "mysql" THEN "api_check" ELSE "sleep"

\* batch and success are dead once the cycle is over; what the probes of the
\* cycle found is kept until the next cycle begins
AtPc(s, pc) ==
    IF pc = "sleep" THEN [IdleSched EXCEPT !.unavailable = s.unavailable]
    ELSE [s EXCEPT !.pc = pc]

\* the batch is processed whatever the probe found
drains_always(probe) == TRUE

\* if check_mysql_health(): / if check_api_health(): is the batch of d
\* processed, for what the probe found
drains(probe) == probe

\* if check_..._health(): records = get_pending_records(d, BATCH_SIZE).  The
\* probes catch their own exceptions and return False; get_pending_records
\* catches nothing, so a sqlite3 error of its SELECT (database is locked)
\* leaves the cycle through except Exception.
SchedBatch(d, s, probe) ==
    \E read_raises \in BOOLEAN :
      LET probed == [s EXCEPT !.unavailable = IF probe THEN @ ELSE @ \cup {d}] IN
        IF drains(probe)
        THEN IF read_raises
             THEN sched' = [probed EXCEPT !.pc = "recover"]
             ELSE LET batch == get_pending_records(offline_queue, d, BATCH_SIZE) IN
                    sched' = AtPc([probed EXCEPT !.batch = Fetched(batch)],
                                  AfterRecord(d, batch))
        ELSE sched' = AtPc(probed, AfterRecord(d, <<>>))

\* The probe and the batch as one step.  Only probes read or write the health
\* items of gateway_stats, so where the queue processor is the one thread that
\* probes, its probe returns what its own liveness check found and the items
\* are not followed.
SchedCheck(d, s) == \E probe \in BOOLEAN : SchedBatch(d, s, probe)

\* time.sleep(BATCH_INTERVAL); the MySQL part of the cycle up to its batch
SchedCheckMysql ==
    /\ "mon" \notin threads
    /\ sched.pc = "sleep"
    /\ SchedCheck("mysql", IdleSched)
    /\ UNCHANGED <<threads, offline_queue, nextId, hs, gateway_stats>>

\* the API part of the cycle up to its batch
SchedCheckApi ==
    /\ "mon" \notin threads
    /\ sched.pc = "api_check"
    /\ SchedCheck("api", sched)
    /\ UNCHANGED <<threads, offline_queue, nextId, hs, gateway_stats>>

\* for record in mysql_records: insert_sensor_data(data) returns or raises
SchedSyncMysql ==
    /\ sched.pc = "mysql_sync"
    /\ \E mysqlUp \in BOOLEAN :
         sched' = [sched EXCEPT
                     !.pc = "mysql_update",
                     !.success = insert_sensor_data_ok(Head(sched.batch).data, mysqlUp)]
    /\ UNCHANGED <<threads, offline_queue, nextId, hs, gateway_stats>>

\* for record in api_records: success, response = call_api(endpoint, data)
SchedSyncApi ==
    /\ sched.pc = "api_sync"
    /\ \E answers \in Answers :
         sched' = [sched EXCEPT !.pc = "api_update",
                                !.success = call_api(answers).success]
    /\ UNCHANGED <<threads, offline_queue, nextId, hs, gateway_stats>>

\* update_attempt(record_id, success) and, after a success, offline_synced += 1;
\* a raise of update_attempt leaves the cycle through except Exception
SchedUpdate(d) ==
    /\ sched.pc = d \o "_update"
    /\ LET record == Head(sched.batch)
           rest == Tail(sched.batch) IN
         IF update_attempt_raises(offline_queue, record.id, sched.success)
         THEN /\ sched' = [sched EXCEPT !.pc = "recover", !.batch = <<>>,
                                        !.success = FALSE]
              /\ UNCHANGED <<offline_queue, gateway_stats>>
         ELSE /\ offline_queue' =
                   update_attempt(offline_queue, record.id, sched.success, Now)
              /\ gateway_stats' =
                   [gateway_stats EXCEPT
                      !.offline_synced = IF sched.success THEN @ + 1 ELSE @]
              /\ sched' = AtPc([sched EXCEPT !.batch = rest, !.success = FALSE],
                                AfterRecord(d, rest))
    /\ UNCHANGED <<threads, nextId, hs>>

\* except Exception: log, and the thread returns
SchedRecoverReturns ==
    /\ sched.pc = "recover"
    /\ sched' = [sched EXCEPT !.pc = "returned"]
    /\ UNCHANGED <<threads, offline_queue, nextId, hs, gateway_stats>>

\* except Exception: log; time.sleep(60)
SchedRecover ==
    /\ sched.pc = "recover"
    /\ sched' = IdleSched
    /\ UNCHANGED <<threads, offline_queue, nextId, hs, gateway_stats>>

\* ---------------------------------------------------------------- probes

\* check_mysql_health / check_api_health: what the probe returns.  The try
\* branch returns gateway_stats[...available] as it is when the return
\* statement reads it, the except branch returns False.
probe_returns(own, available) == IF own = "raised" THEN FALSE ELSE available

\* where the cycle of the queue processor begins the probe of d
ProbeAt(d) == IF d = "mysql" THEN "sleep" ELSE "api_check"

\* the liveness check, and gateway_stats[...available] = its result (False in
\* the except branch)
SchedProbe(d) ==
    /\ "mon" \in threads
    /\ sched.pc = ProbeAt(d)
    /\ \E own \in ProbeOutcomes :
         /\ gateway_stats' = [gateway_stats EXCEPT ![AvailableKey(d)] = (own = "up")]
         /\ sched' = [(IF d = "mysql" THEN IdleSched ELSE sched) EXCEPT
                        !.pc = d \o "_stamp", !.own = own]
    /\ UNCHANGED <<threads, offline_queue, nextId, hs>>

\* gateway_stats[last_..._check] = datetime.now()
SchedStamp(d) ==
    /\ sched.pc = d \o "_stamp"
    /\ gateway_stats' =
         [gateway_stats EXCEPT ![LastCheckKey(d)] = Checked("sched", sched.own)]
    /\ sched' = [sched EXCEPT !.pc = d \o "_return"]
    /\ UNCHANGED <<threads, offline_queue, nextId, hs>>

\* return gateway_stats[...available]; if check_..._health(): the batch of d
SchedReturn(d) ==
    /\ sched.pc = d \o "_return"
    /\ SchedBatch(d, [sched EXCEPT !.own = "none"],
                  probe_returns(sched.own, gateway_stats[AvailableKey(d)]))
    /\ UNCHANGED <<threads, offline_queue, nextId, hs, gateway_stats>>

\* GET /api/health (GET /api/test makes the same two probes): the liveness
\* check of check_..._health and the write of its result
MonProbe(d) ==
    /\ mon.pc = IF d = "mysql" THEN "idle" ELSE "api_check"
    /\ \E own \in ProbeOutcomes :
         /\ gateway_stats' = [gateway_stats EXCEPT ![AvailableKey(d)] = (own = "up")]
         /\ mon' = [(IF d = "mysql" THEN IdleMon ELSE mon) EXCEPT
                      !.pc = d \o "_stamp", !.own = own]
    /\ UNCHANGED <<threads, offline_queue, nextId, hs, sched>>

MonStamp(d) ==
    /\ mon.pc = d \o "_stamp"
    /\ gateway_stats' =
         [gateway_stats EXCEPT ![LastCheckKey(d)] = Checked("mon", mon.own)]
    /\ mon' = [mon EXCEPT !.pc = d \o "_return"]
    /\ UNCHANGED <<threads, offline_queue, nextId, hs, sched>>

\* mysql_healthy = check_mysql_health() / api_healthy = check_api_health()
MonReturn(d) ==
    /\ mon.pc = d \o "_return"
    /\ mon' = [mon EXCEPT
                 !.pc = IF d = "mysql" THEN "api_check" ELSE "respond",
                 !.own = "none",
                 ![d \o "_healthy"] =
                    probe_returns(mon.own, gateway_stats[AvailableKey(d)])]
    /\ UNCHANGED <<threads, offline_queue, nextId, hs, sched, gateway_stats>>

\* what health_data reports of destination d: "available" is what the probe
\* of this request returned, "last_check" is read from gateway_stats now
health_data(d) ==
    [available |-> mon[d \o "_healthy"],
     last_check |-> gateway_stats[LastCheckKey(d)]]

\* health_check builds health_data and answers with it
MonRespond ==
    /\ mon.pc = "respond"
    /\ mon' = IdleMon
    /\ UNCHANGED <<threads, offline_queue, nextId, hs, sched, gateway_stats>>

MonStep ==
    \/ \E d \in Dest : MonProbe(d) \/ MonStamp(d) \/ MonReturn(d)
    \/ MonRespond

SchedStep ==
    \/ \E d \in Dest : SchedProbe(d) \/ SchedStamp(d) \/ SchedReturn(d)
    \/ SchedCheckMysql
    \/ SchedSyncMysql
    \/ SchedUpdate("mysql")
    \/ SchedCheckApi
    \/ SchedSyncApi
    \/ SchedUpdate("api")
    \/ SchedRecover

HandlerStep(h) ==
    \/ HandleSensorData(h)
    \/ HandleSensorRegistration(h)
    \/ SaveOfflineCount(h)
    \/ SaveOfflineTrim(h)

\* ---------------------------------------------------------------- main.py

\* receive_sensor_data: if store_immediately(data) ... else data_queue.put(data)
receive_queues(outcome) == outcome = "failed"

\* what receive_sensor_data answers: stored, queued, or 500 from except Exception
receive_response(outcome) ==
    IF outcome = "stored" THEN "stored"
    ELSE IF outcome = "failed" THEN "queued" ELSE "error"

\* receive_sensor_data for a valid reading
ReceiveSensorData ==
    /\ \E data \in MachineIds, outcome \in StoreOutcomes :
         /\ IF receive_queues(outcome)
            THEN /\ Len(data_queue) + Len(worker.failed_data) < MaxQueued
                 /\ data_queue' = Append(data_queue, data)
            ELSE UNCHANGED data_queue
         /\ response' = receive_response(outcome)
    /\ UNCHANGED <<threads, gateway_vars, worker>>

\* time.sleep(BATCH_PROCESS_INTERVAL); processed_count = 0; failed_data = []
WorkerWake ==
    /\ worker.pc = "sleep"
    /\ worker' = [IdleWorker EXCEPT !.pc = "drain",
                                    !.last_sync = worker.last_sync]
    /\ UNCHANGED <<threads, gateway_vars, data_queue, response>>

\* while not data_queue.empty() and processed_count < MAX_BUFFER_SIZE
drain_continues(q, processed_count) ==
    q # <<>> /\ processed_count < MAX_BUFFER_SIZE

\* a variant of the loop that puts a failed reading back on the queue at once
keep_failed_in_queue(q, failed_data, data) ==
    [q |-> Append(q, data), failed_data |-> failed_data]

\* else: failed_data.append(data): the reading taken from the queue waits in
\* the local list, the queue (q, already without it) is left as it is
keep_failed(q, failed_data, data) ==
    [q |-> q, failed_data |-> Append(failed_data, data)]

\* one round of the while loop: get_nowait(), store_sensor_data(data); a
\* reading whose store raises is logged and neither counted nor kept
WorkerDrain ==
    /\ worker.pc = "drain"
    /\ IF drain_continues(data_queue, worker.processed_count)
       THEN \E outcome \in StoreOutcomes :
              LET data == Head(data_queue)
                  kept == IF outcome = "failed"
                          THEN keep_failed(Tail(data_queue), worker.failed_data, data)
                          ELSE [q |-> Tail(data_queue),
                                failed_data |-> worker.failed_data] IN
                /\ data_queue' = kept.q
                /\ worker' =
                     [worker EXCEPT
                        !.processed_count = IF outcome = "stored" THEN @ + 1 ELSE @,
                        !.failed_data = kept.failed_data]
       ELSE /\ worker' = [worker EXCEPT !.pc = "requeue"]
            /\ UNCHANGED data_queue
    /\ UNCHANGED <<threads, gateway_vars, response>>

\* gateway_stats['last_sync'] = datetime.now(): the time at the end of a cycle,
\* later than the time at the end of the cycle before; kept as the parity of
\* the cycles finished
sync_time(last_sync) == IF last_sync = 1 THEN 2 ELSE 1

\* for data in failed_data: data_queue.put(data); then last_sync is set and
\* the next sleep begins
WorkerRequeue ==
    /\ worker.pc = "requeue"
    /\ IF worker.failed_data # <<>>
       THEN /\ data_queue' = Append(data_queue, Head(worker.failed_data))
            /\ worker' = [worker EXCEPT !.failed_data = Tail(@)]
       ELSE /\ worker' = [IdleWorker EXCEPT
                              !.last_sync = sync_time(worker.last_sync)]
            /\ UNCHANGED data_queue
    /\ UNCHANGED <<threads, gateway_vars, response>>

WorkerStep == WorkerWake \/ WorkerDrain \/ WorkerRequeue

\* a step of the batch worker thread, where it runs
BatchWorker == "worker" \in threads /\ WorkerStep

\* a step of the queue processor thread, where it runs
QueueProcessor == "sched" \in threads /\ SchedStep /\ UNCHANGED <<mon, main_vars>>

\* An assignment query reads and writes nothing of the offline queue or of the
\* queue processor; it is followed in the behaviours of two request threads.
QueryStep(h) == "sched" \notin threads /\ HandleAssignmentCheck(h)

Next ==
    \/ \E h \in Handlers \cap threads : HandlerStep(h) /\ UNCHANGED <<mon, main_vars>>
    \/ \E h \in Handlers \cap threads : QueryStep(h) /\ UNCHANGED <<mon, main_vars>>
    \/ "mon" \in threads /\ MonStep /\ UNCHANGED main_vars
    \/ QueueProcessor
    \/ "recv" \in threads /\ ReceiveSensorData
    \/ BatchWorker

Spec == Init /\ [][Next]_vars

\* The queue processor is a thread of its own whose sleeps, probes, SQLite
\* statements and upstream calls (all with a timeout) return: it always takes
\* its next step.  Nothing is assumed of the request threads.
LiveSpec == Spec /\ WF_vars(QueueProcessor)

\* ---------------------------------------------------------------- restart

\* The process is killed and started again.  What lives in the process is
\* built anew (threads, gateway_stats, Queue()); the SQLite file stays as the
\* last commit left it, init_db creates the table only IF NOT EXISTS, and
\* AUTOINCREMENT goes on from sqlite_sequence.
RestartGateway ==
    /\ hs' = [h \in Handlers |-> NoRequest]
    /\ sched' = IdleSched
    /\ gateway_stats' = StartStats
    /\ mon' = IdleMon
    /\ UNCHANGED <<offline_queue, nextId>>

\* main.py builds its queue in memory, empty, at every start.
RestartMain ==
    /\ data_queue' = <<>>
    /\ worker' = IdleWorker
    /\ response' = "none"

Restart == RestartGateway /\ RestartMain /\ UNCHANGED threads

\* Restarts are followed in the behaviours without the queue processor.
\* The batch worker is a thread of its own (main.py 403-404) that the
\* interpreter keeps scheduling, and each of its statements returns: a step it
\* can take is taken.
WorkerLiveSpec == Spec /\ WF_vars(BatchWorker)

CrashNext == Next \/ ("sched" \notin threads /\ Restart)

CrashSpec == Init /\ [][CrashNext]_vars

\* ---------------------------------------------------------------- counters

\* gateway_stats['stored_offline'] += 1 is a load, an add and a store of the
\* dict item, with no lock around them.  Whether another thread can run
\* between the load and the store is up to the interpreter (the bytecode
\* boundaries at which it hands over the GIL): the actions above are the
\* increment as one step, those below the increment in two.

\* save_offline returns the id (after its trim, if it has one to make) and the
\* handler loads the counter
StatLoad(h) ==
    /\ \/ /\ hs[h].pc = "so_count"
          /\ ~NeedsTrim(Cardinality(offline_queue))
          /\ UNCHANGED offline_queue
       \/ /\ hs[h].pc = "so_trim"
          /\ offline_queue' = offline_queue \ TrimVictims(offline_queue, hs[h].count)
    /\ hs' = [hs EXCEPT ![h].pc = "stat_store",
                        ![h].seen = gateway_stats.stored_offline]
    /\ UNCHANGED <<threads, nextId, sched, gateway_stats>>

\* the handler stores the value it loaded plus one, and answers
StatStore(h) ==
    /\ hs[h].pc = "stat_store"
    /\ gateway_stats' = [gateway_stats EXCEPT !.stored_offline = hs[h].seen + 1]
    /\ hs' = [hs EXCEPT ![h] = [Answered(h) EXCEPT !.seen = 0]]
    /\ UNCHANGED <<threads, offline_queue, nextId, sched>>

\* stored_offline is written by request threads only: the two-step increment
\* is followed where two of them run.
StatStep(h) == "sched" \notin threads /\ (StatLoad(h) \/ StatStore(h))

RaceNext == Next \/ (\E h \in Handlers \cap threads : StatStep(h) /\ UNCHANGED <<mon, main_vars>>)

RaceSpec == Init /\ [][RaceNext]_vars

\* ---------------------------------------------------------------- SQLite faults

\* A statement on the SQLite file raises sqlite3.Error (database is locked
\* when the busy timeout runs out under concurrent writers, disk full, I/O
\* error).  The actions above are the statements that return.

\* save_offline: the INSERT raises; nothing is committed, except Exception
\* returns None and the handler answers 500
SaveOfflineInsertFails(h) ==
    /\ hs[h].pc = "idle"
    /\ \E kind \in {"reading", "registration"} :
         LET destination == IF kind = "reading" THEN "mysql" ELSE "api"
             tries == IF kind = "reading" THEN 1 ELSE MAX_RETRIES
             req == Delivered(kind, destination, [i \in 1..tries |-> FALSE],
                              tries, FALSE) IN
           hs' = [hs EXCEPT ![h] = [req EXCEPT !.resp = handler_response(destination, 0)]]
    /\ UNCHANGED <<threads, offline_queue, nextId, sched, gateway_stats>>

\* save_offline: SELECT COUNT(*) or the DELETE of the trim raises after the
\* INSERT was committed; except Exception returns None (the DELETE is rolled
\* back when the connection is closed), the handler answers 500 and does not
\* count the row
SaveOfflineTrimFails(h) ==
    /\ hs[h].pc \in {"so_count", "so_trim"}
    /\ hs' = [hs EXCEPT ![h] = [hs[h] EXCEPT
                                   !.pc = "idle", !.record_id = 0, !.count = 0,
                                   !.resp = handler_response(hs[h].destination, 0)]]
    /\ UNCHANGED <<threads, offline_queue, nextId, sched, gateway_stats>>

\* the queue processor leaves the cycle through except Exception
Faulted(s) == [s EXCEPT !.pc = "recover", !.batch = <<>>, !.success = FALSE]

\* update_attempt raises.  In the MySQL loop the call after a delivery is
\* inside the try, so its exception is taken for a failed delivery:
\* update_attempt(record_id, False) marks the row retried, unless it raises as
\* well.  Every other raise of update_attempt leaves the cycle.
SchedUpdateFails(d) ==
    /\ sched.pc = d \o "_update"
    /\ LET record == Head(sched.batch)
           rest == Tail(sched.batch) IN
         \E again \in BOOLEAN :
           IF d = "mysql" /\ sched.success /\ ~again
              /\ ~update_attempt_raises(offline_queue, record.id, FALSE)
           THEN /\ offline_queue' = update_attempt(offline_queue, record.id, FALSE, Now)
                /\ sched' = AtPc([sched EXCEPT !.batch = rest, !.success = FALSE],
                                  AfterRecord(d, rest))
           ELSE /\ sched' = Faulted(sched)
                /\ UNCHANGED offline_queue
    /\ UNCHANGED <<threads, nextId, hs, gateway_stats>>

\* The faults of save_offline are followed in the behaviours without the queue
\* processor, those of update_attempt where it runs.
SqliteFault ==
    \/ \E h \in Handlers \cap threads :
         /\ "sched" \notin threads
         /\ SaveOfflineInsertFails(h) \/ SaveOfflineTrimFails(h)
         /\ UNCHANGED <<mon, main_vars>>
    \/ "sched" \in threads /\ (\E d \in Dest : SchedUpdateFails(d))
         /\ UNCHANGED <<mon, main_vars>>

FaultNext == Next \/ SqliteFault

FaultSpec == Init /\ [][FaultNext]_vars

\* ---------------------------------------------------------------- properties

Ids(q) == {r.id : r \in q}
DestRows(q, d) == {r \in q : r.destination = d}
InSaveOffline(h) == hs[h].pc \in {"so_count", "so_trim"}
AllIdle == \A h \in Handlers : hs[h].pc = "idle"
\* rows that left the table by a trim: inserted, neither there nor synced
Evictions == nextId - 1 - Cardinality(offline_queue) - gateway_stats.offline_synced
\* steps
Trims(h) == hs[h].pc = "so_trim" /\ hs'[h].pc = "idle"
Requests(h) == hs[h].pc = "idle" /\ hs'[h] # hs[h]
SchedMoves == sched' # sched
SchedUpdating == sched.pc \in {"mysql_update", "api_update"}
AllFailed(answers) == \A i \in 1..Len(answers) : ~answers[i]

\* C1: the table never holds more than MAX_OFFLINE_RECORDS rows, all
\* destinations and exhausted rows included, plus one row for each save_offline
\* that has inserted and not yet returned; so after any sequence of completed
\* appends, completes and fails it holds at most MAX_OFFLINE_RECORDS rows.
C1_QueueBounded ==
    Cardinality(offline_queue)
      <= MAX_OFFLINE_RECORDS + Cardinality({h \in Handlers : InSaveOffline(h)})

C1_Witness ==
    /\ AllIdle
    /\ Evictions > 0
    /\ Cardinality(offline_queue) = MAX_OFFLINE_RECORDS
    /\ \E r \in offline_queue : r.attempts = MAX_RETRIES
    /\ \E r \in offline_queue : r.destination = "api"

\* C2: every row a trim deletes has a timestamp less than or equal to the
\* timestamp of every row the trim leaves, whatever their destination and
\* attempts; and with one request thread and nothing synced, MAX + 1 appends
\* leave exactly the rows 2 .. MAX + 1.
C2_EvictsOldest ==
    /\ [][\A h \in Handlers :
            Trims(h) =>
              \A g \in offline_queue \ offline_queue', k \in offline_queue' :
                g.timestamp <= k.timestamp]_vars
    /\ [](/\ threads = {"h1", "sched"}
          /\ AllIdle
          /\ nextId = MAX_OFFLINE_RECORDS + 2
          /\ gateway_stats.offline_synced = 0
          => Ids(offline_queue) = 2..(MAX_OFFLINE_RECORDS + 1))

C2_Witness ==
    /\ AllIdle
    /\ Evictions > 0
    /\ \E r, k \in offline_queue :
         /\ r.destination # k.destination
         /\ r.attempts # k.attempts
         /\ r.timestamp # k.timestamp

\* C3 (as claimed): when save_offline trims, the row it inserted is still in
\* the table when it returns the id.
C3_TriggeringRecordKept ==
    [][\A h \in Handlers : Trims(h) => hs[h].record_id \in Ids(offline_queue')]_vars

C6_UnassignedNeverQueued ==
    \A r \in offline_queue : r.destination = "mysql" => r.data \in Assigned

C8_SkipsUnavailable ==
    /\ [](\A d \in sched.unavailable : sched.pc \notin {d \o "_sync", d \o "_update"})
    /\ [][\A d \in sched.unavailable \cup sched'.unavailable :
            SchedMoves => DestRows(offline_queue', d) = DestRows(offline_queue, d)]_vars

C8_Witness ==
    /\ sched.pc = "api_update"
    /\ "mysql" \in sched.unavailable
    /\ Cardinality({r \in offline_queue :
                      r.destination = "mysql" /\ r.attempts = 0}) = MAX_OFFLINE_RECORDS

\* C9: a row the queue processor delivers has attempts < MAX_RETRIES; writing
\* the success back deletes the row and adds exactly 1 to offline_synced, and
\* nothing else changes offline_synced.
C9_SyncedRecordDeleted ==
    /\ [](SchedUpdating =>
            \A r \in offline_queue :
              r.id = Head(sched.batch).id => r.attempts < MAX_RETRIES)
    /\ [][SchedUpdating /\ sched.success /\ SchedMoves =>
            /\ Head(sched.batch).id \notin Ids(offline_queue')
            /\ gateway_stats'.offline_synced = gateway_stats.offline_synced + 1]_vars
    /\ [][gateway_stats'.offline_synced # gateway_stats.offline_synced =>
            /\ SchedUpdating /\ sched.success
            /\ gateway_stats'.offline_synced = gateway_stats.offline_synced + 1]_vars

C9_Witness ==
    /\ sched.pc = "mysql_update"
    /\ sched.success
    /\ \E r \in offline_queue :
         r.id = Head(sched.batch).id /\ r.attempts = MAX_RETRIES - 1

\* C10: a row with attempts = MAX_RETRIES is in no result of
\* get_pending_records and in no batch being processed; the queue processor
\* neither changes nor removes it (a failed delivery never removes a row), and
\* it counts in the COUNT(*) that decides the trim.
C10_ExhaustedNotRetried ==
    /\ [](\A d \in Dest :
            \A r \in Range(get_pending_records(offline_queue, d, BATCH_SIZE)) :
              r.attempts < MAX_RETRIES)
    /\ [](\A i \in 1..Len(sched.batch) : \A r \in offline_queue :
            r.id = sched.batch[i].id => r.attempts < MAX_RETRIES)
    /\ [][SchedMoves =>
            /\ \A r \in offline_queue : r.attempts = MAX_RETRIES => r \in offline_queue'
            /\ (gateway_stats'.offline_synced = gateway_stats.offline_synced
                  => Ids(offline_queue') = Ids(offline_queue))]_vars
    /\ [][\A h \in Handlers :
            hs[h].pc = "so_count" /\ hs'[h] # hs[h] =>
              IF Cardinality(offline_queue) > MAX_OFFLINE_RECORDS
              THEN hs'[h].pc = "so_trim" /\ hs'[h].count = Cardinality(offline_queue)
              ELSE hs'[h].pc = "idle"]_vars

C10_Witness ==
    /\ sched.pc = "mysql_sync"
    /\ \E r \in offline_queue : r.attempts = MAX_RETRIES /\ r.destination = "mysql"
    /\ \E h \in Handlers : hs[h].pc = "so_trim"

Min(a, b) == IF a <= b THEN a ELSE b
PendingSet(q, d) == {r \in q : r.destination = d /\ r.attempts < MAX_RETRIES}
SchedChecking == sched.pc \in {"sleep", "api_check"}

\* C11: for every table the program reaches, every destination and every
\* limit, get_pending_records returns min(limit, number of pending rows)
\* distinct rows of that destination with attempts < MAX_RETRIES, in
\* non-decreasing timestamp order, none of them later than a pending row left
\* out; and the step of the queue processor that reads a batch leaves the table
\* as it was and holds those rows for limit = BATCH_SIZE.
C11_PendingOrdered ==
    /\ [](\A d \in Dest, limit \in 0..MaxId :
            LET res == get_pending_records(offline_queue, d, limit)
                P == PendingSet(offline_queue, d) IN
              /\ Range(res) \subseteq P
              /\ Len(res) = Min(limit, Cardinality(P))
              /\ Cardinality(Range(res)) = Len(res)
              /\ \A i, j \in 1..Len(res) :
                   i < j => res[i].timestamp <= res[j].timestamp
              /\ \A r \in P \ Range(res), k \in Range(res) :
                   k.timestamp <= r.timestamp)
    /\ [][SchedChecking /\ SchedMoves =>
            /\ offline_queue' = offline_queue
            /\ \A i \in 1..Len(sched'.batch) :
                 \E r \in PendingSet(offline_queue,
                                     IF sched.pc = "sleep" THEN "mysql" ELSE "api") :
                   r.id = sched'.batch[i].id]_vars

C11_Witness ==
    /\ sched.pc = "mysql_sync"
    /\ Len(sched.batch) = BATCH_SIZE
    /\ Cardinality(PendingSet(offline_queue, "mysql")) > BATCH_SIZE
    /\ \A i \in 1..BATCH_SIZE :
         get_pending_records(offline_queue, "mysql", BATCH_SIZE)[i].id = sched.batch[i].id
    /\ \E r, k \in PendingSet(offline_queue, "mysql") : r.timestamp # k.timestamp

\* C12: every row has 0 <= attempts <= MAX_RETRIES; the attempts of a row
\* never decrease, and they change only by the failure write-back of the queue
\* processor for that row, which raises them by exactly 1.
C12_AttemptsMonotone ==
    /\ [](\A r \in offline_queue : r.attempts \in 0..MAX_RETRIES)
    /\ [][\A r \in offline_queue, k \in offline_queue' :
            r.id = k.id /\ r.attempts # k.attempts =>
              /\ k.attempts = r.attempts + 1
              /\ SchedUpdating /\ ~sched.success
              /\ Head(sched.batch).id = r.id
              /\ hs' = hs]_vars

C12_Witness ==
    /\ \E h \in Handlers : InSaveOffline(h)
    /\ \E r, k \in offline_queue :
         /\ r.attempts = MAX_RETRIES /\ r.last_attempt # NULL
         /\ k.attempts = 1
    /\ sched.pc \in {"mysql_sync", "api_sync"}

\* C13 (as claimed): the batch of a cycle is given up only record by record:
\* whatever happens to one record, the records after it are still attempted.
C13_BatchNotAborted ==
    [][sched.batch # <<>> /\ SchedMoves =>
         sched'.batch \in {sched.batch, Tail(sched.batch)}]_vars

\* C16: a row leaves the table only by the write-back of a successful delivery
\* of that row by the queue processor, or by the trim of a save_offline; no
\* other step (failure write-back, batch read, probe, faulted cycle) removes a
\* row.
C16_RemovedOnlyByCompleteOrEviction ==
    [][\A r \in offline_queue :
         r.id \notin Ids(offline_queue') =>
           \/ /\ sched.pc = r.destination \o "_update"
              /\ sched.success
              /\ Head(sched.batch).id = r.id
              /\ SchedMoves /\ hs' = hs
           \/ /\ \E h \in Handlers : Trims(h)
              /\ sched' = sched]_vars

C16_Witness ==
    /\ gateway_stats.offline_synced > 0
    /\ Evictions > 0
    /\ sched.pc = "recover"
    /\ \E r \in offline_queue : r.attempts = MAX_RETRIES

\* C17 (as claimed): no step of the program removes a row whose attempts equal
\* MAX_RETRIES.
C17_ExhaustedNeverRemoved ==
    [][\A r \in offline_queue :
         r.attempts = MAX_RETRIES => r.id \in Ids(offline_queue')]_vars

PendingId(id, d) == \E r \in PendingSet(offline_queue, d) : r.id = id

\* C14: where the queue processor runs, it is asleep infinitely often and in a
\* cycle infinitely often, and it never stays in except Exception, which it
\* leaves only for the next sleep: the loop never ends.
C14_SchedulerNeverTerminates ==
    /\ [][sched.pc = "recover" /\ SchedMoves => sched'.pc = "sleep"]_vars
    /\ "sched" \in threads =>
         /\ []<>(sched.pc = "sleep")
         /\ []<>(sched.pc # "sleep")
         /\ []<>(sched.pc # "recover")

C14_Witness ==
    /\ sched.pc = "recover"
    /\ "mysql" \in sched.unavailable
    /\ PendingSet(offline_queue, "api") # {}

\* C15: where the queue processor runs, if from some time on the probe of a
\* destination never reports unavailable and no batch read fails, then every
\* row pending for that destination eventually is not pending any more
\* (deleted after a delivery, exhausted, or evicted), whatever rows are ahead
\* of it.  An id is pending over one interval of time only (ids are not used
\* again and attempts never decrease), so this is: no id is pending for ever.
C15_NoStarvation ==
    /\ [][\A d \in Dest, id \in 1..MaxId :
            ~PendingId(id, d) /\ PendingId(id, d)' =>
              id = nextId /\ nextId' = nextId + 1]_vars
    /\ "sched" \in threads =>
         \A d \in Dest, id \in 1..MaxId :
           <>[](d \notin sched.unavailable /\ sched.pc # "recover")
             => []<>(~PendingId(id, d))

C15_Witness ==
    /\ sched.pc = "mysql_sync"
    /\ sched.unavailable = {}
    /\ \E r, k \in offline_queue :
         /\ r.destination = "mysql" /\ r.attempts = MAX_RETRIES
         /\ k.destination = "mysql" /\ k.attempts = MAX_RETRIES - 1
         /\ k.id = Head(sched.batch).id
    /\ Cardinality(PendingSet(offline_queue, "mysql")) = BATCH_SIZE

\* C18: a request thread that answers an assignment query is never inside
\* save_offline, and its request leaves the table and the id counter as they
\* were, whatever the API answered and whatever the fallback met.
C18_QueryNeverQueued ==
    /\ [](\A h \in Handlers : hs[h].kind = "query" => hs[h].pc = "idle")
    /\ [][\A h \in Handlers :
            Requests(h) /\ hs'[h].kind = "query" =>
              offline_queue' = offline_queue /\ nextId' = nextId]_vars

C18_Witness ==
    /\ hs["h1"].kind = "query" /\ hs["h1"].resp = "unavailable"
    /\ hs["h2"].kind = "query" /\ hs["h2"].resp = "api_response"
    /\ offline_queue = {}
    /\ nextId = 1

\* C19 (as claimed): a query whose API call failed is answered with the
\* assignment when the fallback finds the row, and with 503 unavailable, never
\* 404 not found, when the fallback meets a storage error.
C19_FallbackErrorIsUnavailable ==
    \A h \in Handlers :
      hs[h].kind = "query" /\ ~hs[h].success =>
        /\ hs[h].lookup = "found" => hs[h].resp = "assignment"
        /\ hs[h].lookup \in {"error", "raised"} => hs[h].resp = "unavailable"

\* C20 (as claimed): a restart at any point leaves every queued record where
\* it was, with its destination, payload and attempts: the rows of
\* offline_queue (gateway.py) and the readings on data_queue (main.py).
C20_SurvivesRestart ==
    [][Restart => offline_queue' = offline_queue /\ data_queue' = data_queue]_vars

\* C21 (as claimed): the trim of a save_offline removes at most one row, and
\* it never leaves the table with fewer than MAX_OFFLINE_RECORDS rows, also when
\* several request threads are inside save_offline at once.
C21_EvictsAtMostOne ==
    [][\A h \in Handlers :
         Trims(h) =>
           /\ Cardinality(offline_queue \ offline_queue') <= 1
           /\ Cardinality(offline_queue') >= MAX_OFFLINE_RECORDS]_vars

\* a step of the queue processor that reads the table or writes a row back
SchedTouchesTable == SchedMoves /\ (SchedChecking \/ SchedUpdating)

\* C22 (as claimed): save_offline takes effect as one step: no read or
\* write-back of the queue processor meets a table of more than
\* MAX_OFFLINE_RECORDS rows.
C22_AppendAtomic ==
    [][SchedTouchesTable /\ sched'.pc # "recover" =>
         Cardinality(offline_queue) <= MAX_OFFLINE_RECORDS]_vars

\* request threads between the INSERT of save_offline and the store of the
\* counter
Uncounted == {h \in Handlers : InSaveOffline(h) \/ hs[h].pc = "stat_store"}

\* C23 (as claimed): no increment of a counter is lost: stored_offline is the
\* number of rows appended by the requests that have counted theirs.
C23_CountersExact ==
    gateway_stats.stored_offline
      = nextId - 1 - Cardinality(StartQueue) - Cardinality(Uncounted)

\* a pair whose "available" is what the probe of its "last_check" found
OfOneProbe(pair) == pair.last_check.alive = pair.available

\* C24 (as claimed): the available / last_check pair a thread reads of a
\* destination is the pair of one single probe: what GET /api/health reports
\* of a destination never joins the "available" of one probe with the
\* "last_check" of a probe that found the opposite.
C24_HealthPairOfOneProbe ==
    [][mon.pc = "respond" /\ mon'.pc = "idle" =>
         \A d \in Dest : OfOneProbe(health_data(d))]_vars

\* C29 (as claimed): the queue processor reads the batch of a destination
\* exactly when its own liveness check found the destination up, whatever
\* another thread's probe wrote meanwhile.
C29_ProbeReturnsOwnResult ==
    [][\A d \in Dest :
         sched.pc = d \o "_return" /\ SchedMoves =>
           (d \in sched'.unavailable <=> sched.own # "up")]_vars

\* the queue processor between two cycles: time.sleep(BATCH_INTERVAL), or
\* the time.sleep(60) of except Exception
Resting == {"sleep", "recover"}
\* the positions of the API part of a cycle
ApiPart == {"api_check", "api_stamp", "api_return", "api_sync", "api_update"}

\* C25 (as claimed): a cycle of the queue processor ends, and the next sleep
\* begins, only out of its API part, after its MySQL part: every cycle handles
\* both destinations; and no step of a request thread moves the queue
\* processor, delivers a queued row or writes a delivery back.
C25_FullCycleBeforeSleep ==
    [][/\ (SchedMoves /\ sched.pc \notin Resting /\ sched'.pc \in Resting
             => sched.pc \in ApiPart)
       /\ (hs' # hs =>
             /\ sched' = sched
             /\ gateway_stats'.offline_synced = gateway_stats.offline_synced
             /\ \A r \in offline_queue :
                  \/ r \in offline_queue'
                  \/ \E h \in Handlers : Trims(h))]_vars

\* The counters of gateway_stats that count rows of the offline queue.  The
\* other counters of the dict count requests (requests_received), direct
\* inserts (mysql_inserts, mysql_errors) and API calls (api_calls, api_errors).
Counters == {"stored_offline", "offline_synced"}

\* C26 (as claimed): gateway_stats has a counter of evictions: once rows have
\* been trimmed and no save_offline is in progress, one of its counters is
\* the number of rows the trims have removed.
C26_EvictionsCounted ==
    AllIdle /\ Evictions > 0 => \E k \in Counters : gateway_stats[k] = Evictions

\* C27: no two rows share an id and every id in the table is below the
\* AUTOINCREMENT sequence, which never goes back; a row that appears has an id
\* above every id given out before, so ids increase in append order and the id
\* of a synced or trimmed row is never given again; and a write-back of the
\* queue processor changes or removes no row but the one it fetched, with the
\* id and the payload it fetched.
C27_IdsNeverReused ==
    /\ [](\A r, k \in offline_queue : (r.id = k.id => r = k) /\ r.id < nextId)
    /\ [][nextId' >= nextId]_vars
    /\ [][\A k \in offline_queue' :
            k.id \notin Ids(offline_queue) =>
              /\ k.id >= nextId /\ nextId' > k.id
              /\ \A i \in 1..Len(sched.batch) : sched.batch[i].id < k.id]_vars
    /\ [][SchedUpdating /\ SchedMoves =>
            \A r \in offline_queue :
              r \notin offline_queue' =>
                r.id = Head(sched.batch).id /\ r.data = Head(sched.batch).data]_vars

C27_Witness ==
    /\ SchedUpdating
    /\ Head(sched.batch).id \notin Ids(offline_queue)
    /\ Cardinality(offline_queue) = MAX_OFFLINE_RECORDS
    /\ \A r \in offline_queue : r.id > Head(sched.batch).id
    /\ gateway_stats.offline_synced > 0

\* C28 (as claimed): a request whose INSERT into offline_queue was committed
\* is never answered with the 500 of a save_offline that returned None,
\* whatever happens to the COUNT(*) and the trim that follow.
C28_CommittedInsertReturnsId ==
    [][\A h \in Handlers :
         InSaveOffline(h) /\ hs'[h] # hs[h] => hs'[h].resp # "error"]_vars

\* C30 (as claimed): the write-back after a delivery that reached the
\* destination never raises the attempts of a row and leaves the delivered
\* row out of every later batch, also when the DELETE fails.
C30_DeliveredNeverRetried ==
    [][SchedUpdating /\ sched.success /\ SchedMoves =>
         /\ \A k \in offline_queue' :
              k.id = Head(sched.batch).id => k.attempts >= MAX_RETRIES
         /\ \A r \in offline_queue, k \in offline_queue' :
              r.id = k.id => k.attempts = r.attempts]_vars

\* the positions of the MySQL part of a cycle
MysqlPart == {"mysql_stamp", "mysql_return", "mysql_sync", "mysql_update"}

\* C31 (as claimed): whatever happens while the MySQL batch of a cycle is
\* processed, the cycle goes on with that batch or to its API part: it never
\* leaves the MySQL batch for the next sleep.
C31_ApiPartAlwaysReached ==
    [][SchedMoves /\ sched.pc \in {"mysql_sync", "mysql_update"} =>
         sched'.pc \in MysqlPart \cup ApiPart]_vars

\* C32 (as claimed): the batch worker of main.py conserves readings: a reading
\* that leaves data_queue has been stored (and counted) or is kept in
\* failed_data; a reading leaves failed_data only by being put back at the end
\* of data_queue; and the cycle ends with no reading left in failed_data.
C32_WorkerConservesReadings ==
    [][/\ (Len(data_queue') < Len(data_queue) =>
             \/ worker'.processed_count = worker.processed_count + 1
             \/ worker'.failed_data = Append(worker.failed_data, Head(data_queue)))
       /\ (worker.pc = "requeue" /\ worker'.failed_data # worker.failed_data =>
             data_queue' = Append(data_queue, Head(worker.failed_data)))
       /\ (worker.pc = "requeue" /\ worker'.pc = "sleep" =>
             worker.failed_data = <<>>)]_vars

\* a request thread of main.py puts a reading on data_queue
Arrival ==
    /\ worker' = worker
    /\ \E data \in MachineIds : data_queue' = Append(data_queue, data)

\* C33: the drain loop of a batch-worker cycle takes each queued reading at
\* most once, since inside the loop the worker only takes readings off the
\* queue and failed ones wait in failed_data; so unless readings keep
\* arriving, every cycle leaves the loop, also when every store fails, and
\* ends by setting last_sync.
C33_DrainLoopTerminates ==
    /\ [][worker.pc = "drain" /\ data_queue' # data_queue /\ ~Arrival =>
            /\ data_queue # <<>>
            /\ data_queue' = Tail(data_queue)]_vars
    /\ ("worker" \in threads /\ <>[][~Arrival]_vars =>
          []<><<worker'.last_sync # worker.last_sync>>_vars)

\* the database was down for a whole cycle: the loop has ended with the queue
\* empty, nothing stored and the failed readings waiting to be put back
C33_Witness ==
    /\ worker.pc = "requeue"
    /\ worker.processed_count = 0
    /\ Len(worker.failed_data) >= 2
    /\ data_queue = <<>>

====
